---- MODULE Spec2Model ----
(***************************************************************************)
(* The content bot of src/content_bot.py: the conversation registered in   *)
(* main (a ConversationHandler keyed by (chat, user)), its handlers, the   *)
(* ContentData record kept in context.user_data, and the publish step of   *)
(* confirm_submission (setup_repo, file write, commit_and_push).           *)
(*                                                                         *)
(* Texts are sequences of one-character strings.  An optional value        *)
(* (Python None or a value) is the empty set or a singleton.               *)
(*                                                                         *)
(* Line 46 binds six state names; ENTERING_READ_TIME is bound nowhere, so  *)
(* evaluating it raises NameError.  The dict literal in main (line 408)    *)
(* evaluates it too; the model describes the handlers as that table        *)
(* registers them and follows Python for every `return ENTERING_READ_TIME`.*)
(*                                                                         *)
(* Four specifications: Spec is the conversation as the dispatcher runs    *)
(* it; HandlerSpec calls read_time_entered, which the dispatcher never     *)
(* selects, from the state description_entered leaves an essay in;         *)
(* MethodSpec calls the methods of ContentData on every record of the data *)
(* model; SlugSpec calls generate_filename on every text of its bounds.    *)
(***************************************************************************)
EXTENDS Integers, Sequences, FiniteSets, TLC

VARIABLES
    conv,       \* ConversationHandler's state per (chat, user) key
    user_data,  \* context.user_data["content_data"] per user
    menus,      \* number of inline keyboards of each kind still shown, per key
    prompt,     \* the last message the bot sent, per conversation key
    ops,        \* external calls of the publish since /new, per key, each
                \* with "ok" or "failed"
    outcome,    \* what ended the key's conversation, the message shown and
                \* the file written
    disk,       \* files of the working copy written by the bot
    repoExists, \* os.path.exists(REPO_PATH)
    origin,     \* the working copy has a remote named origin
    token,      \* GITHUB_TOKEN is non-empty
    url,        \* REPO_URL is non-empty
    started,    \* number of conversations started so far
    owner,      \* the key whose conversation created the user's record
    returned    \* what the last direct call of a method of the record gave

vars == <<conv, user_data, menus, prompt, ops, outcome, disk, repoExists,
          origin, token, url, started, owner, returned>>

---------------------------------------------------------------------------
(* Bounds *)

\* Number of /new commands the bot accepts in one run.
MaxSessions == 2

---------------------------------------------------------------------------
(* Texts *)

Letters == {"a","b","c","d","e","f","g","h","i","j","k","l","m","n","o","p",
            "q","r","s","t","u","v","w","x","y","z"}

Digits == {"0","1","2","3","4","5","6","7","8","9"}

\* str.isspace for the characters of the model
IsSpace(c) == c \in {" ", "\n", "\t"}

\* str.lower, one character
LowerChar(c) ==
    CASE c = "A" -> "a" [] c = "B" -> "b" [] c = "K" -> "k" [] c = "I" -> "i"
      [] c = "M" -> "m" [] c = "P" -> "p" [] c = "S" -> "s" [] OTHER -> c

Lower(t) == [i \in 1..Len(t) |-> LowerChar(t[i])]

RECURSIVE LStrip(_)
LStrip(t) == IF t # <<>> /\ IsSpace(Head(t)) THEN LStrip(Tail(t)) ELSE t

RECURSIVE RStrip(_)
RStrip(t) ==
    IF t # <<>> /\ IsSpace(t[Len(t)]) THEN RStrip(SubSeq(t, 1, Len(t) - 1)) ELSE t

\* str.strip
Strip(t) == RStrip(LStrip(t))

DigitValue(c) ==
    CASE c = "0" -> 0 [] c = "1" -> 1 [] c = "2" -> 2 [] c = "3" -> 3
      [] c = "4" -> 4 [] c = "5" -> 5 [] c = "6" -> 6 [] c = "7" -> 7
      [] c = "8" -> 8 [] c = "9" -> 9

RECURSIVE DigitsValue(_)
DigitsValue(t) ==
    IF t = <<>> THEN 0
    ELSE 10 * DigitsValue(SubSeq(t, 1, Len(t) - 1)) + DigitValue(t[Len(t)])

\* int(text): surrounding whitespace dropped, an optional sign, then digits.
\* The empty set when int raises ValueError, else the singleton of the value.
ParseInt(t) ==
    LET s == Strip(t)
        signed == s # <<>> /\ Head(s) \in {"+", "-"}
        d == IF signed THEN Tail(s) ELSE s
    IN  IF d # <<>> /\ \A i \in 1..Len(d) : d[i] \in Digits
        THEN {IF signed /\ Head(s) = "-" THEN 0 - DigitsValue(d) ELSE DigitsValue(d)}
        ELSE {}

---------------------------------------------------------------------------
(* ContentData *)

None == {}

Some(x) == {x}

\* the value of an optional that is set
Val(o) == CHOOSE x \in o : TRUE

\* Python truthiness of an optional text (None and "" are false)
TruthyText(o) == o # {} /\ Val(o) # <<>>

\* Python truthiness of an optional integer (None and 0 are false)
TruthyInt(o) == o # {} /\ Val(o) # 0

CONTENT_PATHS ==
    [t \in {"blog", "essays", "aphorisms"} |->
        CASE t = "blog" -> "src/content/blog"
          [] t = "essays" -> "src/content/essays"
          [] t = "aphorisms" -> "src/content/aphorisms"]

REQUIRED_FIELDS(content_type) ==
    CASE content_type = "blog" -> {"title", "date", "description"}
      [] content_type = "essays" -> {"title", "date", "description", "readTime"}
      [] content_type = "aphorisms" -> {"content", "date"}
      [] OTHER -> {}

\* tags as a class attribute: the one list every record shares
ContentDataSharedTags(content_type, now) ==
    [content_type |-> content_type, title |-> None, description |-> None,
     content |-> None,
     tags |-> IF \E u \in DOMAIN user_data : user_data[u] # None
              THEN Val(user_data[CHOOSE u \in DOMAIN user_data : user_data[u] # None]).tags
              ELSE <<>>,
     read_time |-> None, date |-> now]

\* ContentData.__init__
ContentData(content_type, now) ==
    [content_type |-> content_type, title |-> None, description |-> None,
     content |-> None, tags |-> <<>>, read_time |-> None, date |-> now]

\* is_complete without its last check, the content required whatever the type
is_completeRequiredOnly(r) ==
    LET required == REQUIRED_FIELDS(r.content_type)
    IN  /\ ~("title" \in required /\ ~TruthyText(r.title))
        /\ ~("description" \in required /\ ~TruthyText(r.description))
        /\ ~("content" \in required /\ ~TruthyText(r.content))
        /\ ~("readTime" \in required /\ ~TruthyInt(r.read_time))

is_complete(r) ==
    LET required == REQUIRED_FIELDS(r.content_type)
    IN  /\ ~("title" \in required /\ ~TruthyText(r.title))
        /\ ~("description" \in required /\ ~TruthyText(r.description))
        /\ ~("content" \in required /\ ~TruthyText(r.content))
        /\ ~("readTime" \in required /\ ~TruthyInt(r.read_time))
        /\ TruthyText(r.content)

\* fm_data with the description stored whatever the content type
fm_dataAnyType(r) ==
    LET present ==
            (IF r.content_type \in {"blog", "essays"} THEN {"title"} ELSE {})
            \cup (IF r.content_type = "aphorisms" THEN {"content"} ELSE {})
            \cup {"date"}
            \cup (IF TruthyText(r.description) THEN {"description"} ELSE {})
            \cup (IF TruthyInt(r.read_time) /\ r.content_type = "essays"
                  THEN {"readTime"} ELSE {})
            \cup (IF r.tags # <<>> THEN {"tags"} ELSE {})
    IN  [key \in present |->
            CASE key = "title" -> r.title
              [] key = "content" -> r.content
              [] key = "date" -> r.date
              [] key = "description" -> r.description
              [] key = "readTime" -> r.read_time
              [] key = "tags" -> r.tags]

\* the mapping create_frontmatter fills, lines 98 to 115
fm_data(r) ==
    LET present ==
            (IF r.content_type \in {"blog", "essays"} THEN {"title"} ELSE {})
            \cup (IF r.content_type = "aphorisms" THEN {"content"} ELSE {})
            \cup {"date"}
            \cup (IF TruthyText(r.description) /\ r.content_type \in {"blog", "essays"}
                  THEN {"description"} ELSE {})
            \cup (IF TruthyInt(r.read_time) /\ r.content_type = "essays"
                  THEN {"readTime"} ELSE {})
            \cup (IF r.tags # <<>> THEN {"tags"} ELSE {})
    IN  [key \in present |->
            CASE key = "title" -> r.title
              [] key = "content" -> r.content
              [] key = "date" -> r.date
              [] key = "description" -> r.description
              [] key = "readTime" -> r.read_time
              [] key = "tags" -> r.tags]

\* a line of a generated file that is not a key of the frontmatter
Line(kind) == [kind |-> kind, key |-> "", value |-> None]

\* yaml.dump sorts the keys of the mapping
YamlOrder == <<"content", "date", "description", "readTime", "tags", "title">>

\* yaml.dump(fm_data, default_flow_style=False): one entry per key
yaml_dump(mapping) ==
    LET keys == SelectSeq(YamlOrder, LAMBDA key : key \in DOMAIN mapping)
    IN  [i \in 1..Len(keys) |->
            [kind |-> "entry", key |-> keys[i], value |-> mapping[keys[i]]]]

\* f"---\n{frontmatter}---"
create_frontmatter(r) ==
    <<Line("---")>> \o yaml_dump(fm_data(r)) \o <<Line("---")>>

\* the character class written without its dash, [^a-z0-9\s]
RECURSIVE StripSpecialNoDash(_)
StripSpecialNoDash(t) ==
    IF t = <<>> THEN <<>>
    ELSE IF Head(t) \in Letters \cup Digits \/ IsSpace(Head(t))
         THEN <<Head(t)>> \o StripSpecialNoDash(Tail(t))
         ELSE StripSpecialNoDash(Tail(t))

\* re.sub(r'[^a-z0-9\s-]', '', slug)
RECURSIVE StripSpecial(_)
StripSpecial(t) ==
    IF t = <<>> THEN <<>>
    ELSE IF Head(t) \in Letters \cup Digits \cup {"-"} \/ IsSpace(Head(t))
         THEN <<Head(t)>> \o StripSpecial(Tail(t))
         ELSE StripSpecial(Tail(t))

\* re.sub(r'\s+', '-', slug)
RECURSIVE DashSpaces(_)
DashSpaces(t) ==
    IF t = <<>> THEN <<>>
    ELSE IF IsSpace(Head(t))
         THEN <<"-">> \o DashSpaces(LStrip(t))
         ELSE <<Head(t)>> \o DashSpaces(Tail(t))

Slugify(t) == DashSpaces(StripSpecial(Lower(t)))

\* the first whitespace-separated word of a text that starts with one
RECURSIVE FirstWord(_)
FirstWord(t) ==
    IF t = <<>> \/ IsSpace(Head(t)) THEN <<>>
    ELSE <<Head(t)>> \o FirstWord(Tail(t))

\* str.split(): the whitespace-separated words
RECURSIVE Words(_)
Words(t) ==
    LET s == LStrip(t)
        w == FirstWord(s)
    IN  IF s = <<>> THEN <<>>
        ELSE <<w>> \o Words(SubSeq(s, Len(w) + 1, Len(s)))

\* ' '.join(words)
RECURSIVE JoinSpace(_)
JoinSpace(ws) ==
    IF ws = <<>> THEN <<>>
    ELSE IF Len(ws) = 1 THEN ws[1]
    ELSE ws[1] \o <<" ">> \o JoinSpace(Tail(ws))

FirstThree(ws) == SubSeq(ws, 1, IF Len(ws) < 3 THEN Len(ws) ELSE 3)

\* the name datetime.now() gives at line 139
TimestampName == <<"c","o","n","t","e","n","t","-","n","o","w">>

generate_filename(r) ==
    IF r.content_type \in {"blog", "essays"} THEN Slugify(Val(r.title)) \o <<".","m","d">>
    ELSE IF r.content_type = "aphorisms"
         THEN Slugify(JoinSpace(FirstThree(Words(Val(r.content))))) \o <<".","m","d">>
         ELSE TimestampName \o <<".","m","d">>

\* "<" in self.content and ">" in self.content
HasAngles(t) ==
    /\ \E i \in 1..Len(t) : t[i] = "<"
    /\ \E i \in 1..Len(t) : t[i] = ">"

\* the two import lines of line 153
Imports == <<Line("import Summary from '../../components/Summary.astro';"),
             Line("import 'uno.css';")>>

\* the text of the record's content, as the f-string puts it in the file
ContentLine(r) == [kind |-> "content", key |-> "", value |-> r.content]

\* create_file_content with the angle-bracket test written with `or`
create_file_contentEither(r) ==
    IF r.content_type = "aphorisms" THEN create_frontmatter(r)
    ELSE IF r.content = None THEN <<Line("TypeError")>>
    ELSE IF \E i \in 1..Len(Val(r.content)) : Val(r.content)[i] \in {"<", ">"}
         THEN create_frontmatter(r) \o <<Line("")>> \o Imports \o <<Line("")>>
              \o <<ContentLine(r)>>
         ELSE create_frontmatter(r) \o <<Line("")>> \o <<ContentLine(r)>>

\* The lines of the file.  `"<" in self.content` raises TypeError on a
\* content that is None.
create_file_content(r) ==
    IF r.content_type = "aphorisms" THEN create_frontmatter(r)
    ELSE IF r.content = None THEN <<Line("TypeError")>>
    ELSE IF HasAngles(Val(r.content))
         THEN create_frontmatter(r) \o <<Line("")>> \o Imports \o <<Line("")>>
              \o <<ContentLine(r)>>
         ELSE create_frontmatter(r) \o <<Line("")>> \o <<ContentLine(r)>>

get_file_extension(r) ==
    IF HasAngles(Val(r.content)) /\ r.content_type # "aphorisms"
    THEN <<"m","d","x">> ELSE <<"m","d">>

\* os.path.splitext(name)[0]: the name up to its last dot, leading dots kept
SplitextRoot(name) ==
    LET dots == {i \in 1..Len(name) : name[i] = "."}
        lead == {i \in 1..Len(name) : \A j \in 1..i : name[j] = "."}
        cut == dots \ lead
    IN  IF cut = {} THEN name
        ELSE SubSeq(name, 1, (CHOOSE i \in cut : \A j \in cut : j <= i) - 1)

get_full_filename(r) ==
    SplitextRoot(generate_filename(r)) \o <<".">> \o get_file_extension(r)

---------------------------------------------------------------------------
(* The conversation table of main *)

CHOOSING_CONTENT_TYPE == "CHOOSING_CONTENT_TYPE"

ENTERING_TITLE == "ENTERING_TITLE"

ENTERING_DESCRIPTION == "ENTERING_DESCRIPTION"

ENTERING_CONTENT == "ENTERING_CONTENT"

ENTERING_TAGS == "ENTERING_TAGS"

CONFIRM == "CONFIRM"

\* ConversationHandler.END: the key has no conversation (before /new too)
END == "END"

\* what evaluating a name bound nowhere gives
NameError == "NameError"

\* line 46 unpacks range(6) into six names; this one is not among them
ENTERING_READ_TIME == NameError

\* the calendar days datetime.now() gives during the run
Days == {0, 1}

\* one user talking to the bot in two chats
Chats == {1, 2}

Users == {1}

\* ConversationHandler's default key: per_chat and per_user
Keys == Chats \X Users

UserOf(k) == k[2]

\* the inline keyboards and the callback_data of their buttons
Buttons(menu) ==
    CASE menu = "type" -> {"blog", "essays", "aphorisms"}
      [] menu = "confirm" -> {"confirm", "cancel"}

\* message texts of the model: "5" and "Skip" for descriptions, read times
\* and tags, "My P" for titles, "Be kind" for contents
Texts == { <<"5">>, <<"S","k","i","p">> }

Titles == { <<"M","y"," ","P">> }

Contents == { <<"B","e"," ","k","i","n","d">> }

Menus == {"type", "confirm"}

\* every callback_data a keyboard of the bot carries
Data == {"blog", "essays", "aphorisms", "confirm", "cancel"}

\* context.user_data.get("content_data")
content_data(k) == Val(user_data[UserOf(k)])

\* a handler stores into the record it got from user_data
SetRecord(k, r) == user_data' = [user_data EXCEPT ![UserOf(k)] = Some(r)]

\* the handler's return value becomes the conversation's state; a handler
\* that raises leaves the state as it was
Handled(k, ret) ==
    conv' = IF ret = NameError THEN conv ELSE [conv EXCEPT ![k] = ret]

reply_text(k, m) == prompt' = [prompt EXCEPT ![k] = m]

\* query.edit_message_text: the new text, and the message's keyboard is gone
edit_message_text(k, menu, m) ==
    /\ prompt' = [prompt EXCEPT ![k] = m]
    /\ menus' = [menus EXCEPT ![k][menu] = @ - 1]

\* the conversation has not ended
NotEnded == [by |-> "none", message |-> "none", file |-> None]

\* no method of the record has been called directly
NoCall == [method |-> "none", value |-> "none"]

Init ==
    /\ conv = [k \in Keys |-> END]
    /\ user_data = [u \in Users |-> None]
    /\ menus = [k \in Keys |-> [m \in Menus |-> 0]]
    /\ prompt = [k \in Keys |-> "none"]
    /\ ops = [k \in Keys |-> <<>>]
    /\ outcome = [k \in Keys |-> NotEnded]
    /\ disk = {}
    /\ repoExists \in BOOLEAN
    /\ token \in BOOLEAN
    /\ url \in BOOLEAN
    \* REPO_URL is read only by setup_repo, when the working copy is absent
    /\ repoExists => url
    \* only a working copy has remotes
    /\ origin \in BOOLEAN
    /\ origin => repoExists
    /\ started = 0
    /\ owner = [u \in Users |-> <<0, 0>>]
    /\ returned = NoCall

env == <<repoExists, origin, token, url>>

\* /new, the entry point: taken only when the key has no conversation
new_content(k) ==
    /\ conv[k] = END
    /\ started < MaxSessions
    /\ started' = started + 1
    /\ reply_text(k, "AskType")
    /\ menus' = [menus EXCEPT ![k]["type"] = @ + 1]
    /\ ops' = [ops EXCEPT ![k] = <<>>]
    /\ outcome' = [outcome EXCEPT ![k] = NotEnded]
    /\ Handled(k, CHOOSING_CONTENT_TYPE)
    /\ UNCHANGED <<user_data, owner, disk, env, returned>>

\* CallbackQueryHandler(content_type_chosen), no pattern: a button of any
\* keyboard still shown in the chat
content_type_chosen(k, menu, data, now) ==
    /\ conv[k] = CHOOSING_CONTENT_TYPE
    /\ menus[k][menu] > 0
    /\ data \in Buttons(menu)
    /\ SetRecord(k, ContentData(data, now))
    /\ owner' = [owner EXCEPT ![UserOf(k)] = k]
    /\ IF data = "aphorisms"
       THEN /\ edit_message_text(k, menu, "AskAphorism")
            /\ Handled(k, ENTERING_CONTENT)
       ELSE /\ edit_message_text(k, menu, "AskTitle")
            /\ Handled(k, ENTERING_TITLE)
    /\ UNCHANGED <<ops, outcome, disk, env, started, returned>>

title_entered(k, text) ==
    /\ conv[k] = ENTERING_TITLE
    /\ SetRecord(k, [content_data(k) EXCEPT !.title = Some(text)])
    /\ reply_text(k, "AskDescription")
    /\ Handled(k, ENTERING_DESCRIPTION)
    /\ UNCHANGED <<owner, menus, ops, outcome, disk, env, started, returned>>

description_entered(k, text) ==
    /\ conv[k] = ENTERING_DESCRIPTION
    /\ SetRecord(k, [content_data(k) EXCEPT !.description = Some(text)])
    /\ IF content_data(k).content_type = "essays"
       THEN /\ reply_text(k, "AskReadTime")
            /\ Handled(k, ENTERING_READ_TIME)
       ELSE /\ reply_text(k, "AskContent")
            /\ Handled(k, ENTERING_CONTENT)
    /\ UNCHANGED <<owner, menus, ops, outcome, disk, env, started, returned>>

\* The table entry that would dispatch to this handler cannot be built
\* (line 408 evaluates the unbound name), so the definition is the handler's
\* body alone, as a direct call runs it.
read_time_entered(k, text) ==
    /\ IF ParseInt(text) # {}
       THEN /\ SetRecord(k, [content_data(k) EXCEPT !.read_time = ParseInt(text)])
            /\ reply_text(k, "AskEssayContent")
            /\ Handled(k, ENTERING_CONTENT)
       ELSE /\ UNCHANGED user_data
            /\ reply_text(k, "InvalidReadTime")
            /\ Handled(k, ENTERING_READ_TIME)
    /\ UNCHANGED <<owner, menus, ops, outcome, disk, env, started, returned>>

\* content_entered assigning the attribute content_type instead of content
content_enteredTypo(k, text) ==
    /\ conv[k] = ENTERING_CONTENT
    /\ SetRecord(k, [content_data(k) EXCEPT !.content_type = text])
    /\ reply_text(k, "AskTags")
    /\ Handled(k, ENTERING_TAGS)
    /\ UNCHANGED <<owner, menus, ops, outcome, disk, env, started, returned>>

content_entered(k, text) ==
    /\ conv[k] = ENTERING_CONTENT
    /\ SetRecord(k, [content_data(k) EXCEPT !.content = Some(text)])
    /\ reply_text(k, "AskTags")
    /\ Handled(k, ENTERING_TAGS)
    /\ UNCHANGED <<owner, menus, ops, outcome, disk, env, started, returned>>

\* the text up to its first comma
RECURSIVE UptoComma(_)
UptoComma(t) ==
    IF t = <<>> \/ Head(t) = "," THEN <<>>
    ELSE <<Head(t)>> \o UptoComma(Tail(t))

\* text.split(",")
RECURSIVE SplitComma(_)
SplitComma(t) ==
    LET piece == UptoComma(t)
    IN  IF Len(piece) = Len(t) THEN <<piece>>
        ELSE <<piece>> \o SplitComma(SubSeq(t, Len(piece) + 2, Len(t)))

\* [tag.strip() for tag in text.split(",")]
ParseTags(text) ==
    LET pieces == SplitComma(text)
    IN  [i \in 1..Len(pieces) |-> Strip(pieces[i])]

tags_entered(k, text) ==
    /\ conv[k] = ENTERING_TAGS
    /\ IF Lower(text) # <<"s","k","i","p">>
       THEN SetRecord(k, [content_data(k) EXCEPT !.tags = ParseTags(text)])
       ELSE UNCHANGED user_data
    /\ reply_text(k, "AskConfirm")
    /\ menus' = [menus EXCEPT ![k]["confirm"] = @ + 1]
    /\ Handled(k, CONFIRM)
    /\ UNCHANGED <<owner, ops, outcome, disk, env, started, returned>>

---------------------------------------------------------------------------
(* The publish step *)

\* the external calls of the publish step, in the order of the code
Steps == {"clone", "open", "makedirs", "write", "remote", "pull", "add",
          "commit", "push"}

\* the calls that fail or not whatever the state of the working copy;
\* repo.remote(name="origin") fails exactly when there is no such remote
MayFail == Steps \ {"remote"}

\* the exception a failing external call raises
Raises(step) ==
    CASE step = "clone" -> "GitCommandError"
      [] step = "open" -> "InvalidGitRepositoryError"
      [] step \in {"makedirs", "write"} -> "OSError"
      [] step = "remote" -> "ValueError"
      [] step \in {"pull", "add", "commit", "push"} -> "GitCommandError"

\* setup_repo cloning whenever the working copy is absent, without looking
\* at the credential and the URL
SetupPlanAlwaysClone(exists, tok, u) ==
    IF exists THEN <<>> ELSE <<"clone">>

\* setup_repo up to Repo(REPO_PATH): clone when the working copy is absent
\* and both the credential and the URL are set, else raise ValueError
SetupPlan(exists, tok, u) ==
    IF exists THEN <<>>
    ELSE IF tok /\ u THEN <<"clone">> ELSE <<"raise ValueError">>

\* get_full_filename raises on a record without the text it slugs or scans
FilenameRaises(r) ==
    \/ r.content_type \in {"blog", "essays"} /\ r.title = None
    \/ r.content = None

\* commit_and_push pushing whether or not the credential is set
CommitPlanAlwaysPush(tok) == <<"remote", "pull", "add", "commit", "push">>

\* commit_and_push: the calls inside its try
CommitPlan(tok) ==
    <<"remote", "pull", "add", "commit">> \o (IF tok THEN <<"push">> ELSE <<>>)

\* the statements of confirm_submission's try block, in order, when none fails
PublishPlan(r, exists, tok, u) ==
    SetupPlan(exists, tok, u) \o <<"open">> \o
    (IF r.content_type \notin DOMAIN CONTENT_PATHS THEN <<"raise KeyError">>
     ELSE <<"makedirs">> \o
          (IF FilenameRaises(r) THEN <<"raise AttributeError">>
           ELSE <<"write">> \o CommitPlan(tok)))

\* except GitCommandError in commit_and_push: the calls it covers and the
\* exception class it catches
CaughtInCommitAndPush(step) ==
    /\ step \in {"remote", "pull", "add", "commit", "push"}
    /\ Raises(step) = "GitCommandError"

\* the message confirm_submission shows when the statement `stopped` of the
\* try block raised ("none": nothing raised)
Message(stopped) ==
    IF stopped = "none" THEN "Pushed"
    ELSE IF CaughtInCommitAndPush(stopped) THEN "SavedLocally"
    ELSE "Error"

\* The run of the try block when the external call `fail` fails (none fails
\* when fail is "none"): the external calls made, each with its result, the
\* calls that succeeded, the statement that raised, and the message shown.
\* A working copy cloned in this run has the remote origin.
Publish(r, exists, org, tok, u, fail) ==
    LET plan == PublishPlan(r, exists, tok, u)
        stops == {i \in 1..Len(plan) :
                    \/ plan[i] = fail
                    \/ plan[i] \notin Steps
                    \/ plan[i] = "remote" /\ exists /\ ~org}
        stop == IF stops = {} THEN 0 ELSE CHOOSE i \in stops : \A j \in stops : i <= j
        reached == IF stop = 0 THEN plan ELSE SubSeq(plan, 1, stop)
        calls == SelectSeq(reached, LAMBDA x : x \in Steps)
        stopped == IF stop = 0 THEN "none" ELSE plan[stop]
    IN  [ops |-> [i \in 1..Len(calls) |->
                    <<calls[i], IF calls[i] = stopped THEN "failed" ELSE "ok">>],
         done |-> {calls[i] : i \in 1..Len(calls)} \ {stopped},
         failed |-> stopped,
         message |-> Message(stopped)]

\* the comparison of line 351 against a string no button carries
IsCancelTypo(data) == data = "canceled"

\* line 351: the one callback_data that does not publish
IsCancel(data) == data = "cancel"

\* the except block returning CONFIRM, to let the user try again
AfterPublishRetry(message) == IF message = "Error" THEN CONFIRM ELSE END

\* lines 383 to 389: every exception of the try block is caught, and the
\* handler returns END after every message
AfterPublish(message) == END

\* os.path.join(content_dir, filename)
file_path(r) == <<CONTENT_PATHS[r.content_type], get_full_filename(r)>>

\* CallbackQueryHandler(confirm_submission), no pattern: a button of any
\* keyboard still shown in the chat
confirm_submission(k, menu, data, fail) ==
    /\ conv[k] = CONFIRM
    /\ menus[k][menu] > 0
    /\ data \in Buttons(menu)
    /\ IF IsCancel(data)
       THEN /\ fail = "none"
            /\ edit_message_text(k, menu, "Canceled")
            /\ outcome' = [outcome EXCEPT ![k] = [by |-> data, message |-> "Canceled", file |-> None]]
            /\ UNCHANGED <<ops, disk, env>>
       ELSE LET r == content_data(k)
                run == Publish(r, repoExists, origin, token, url, fail)
                wrote == IF "write" \in run.done THEN {file_path(r)} ELSE {}
            IN  /\ fail \in {run.failed, "none"}
                /\ fail = "none" => run.failed \notin MayFail
                /\ ops' = [ops EXCEPT ![k] = @ \o run.ops]
                /\ disk' = disk \cup wrote
                /\ repoExists' = (repoExists \/ "clone" \in run.done)
                /\ origin' = (origin \/ "clone" \in run.done)
                /\ edit_message_text(k, menu, run.message)
                /\ outcome' = [outcome EXCEPT ![k] = [by |-> data, message |-> run.message, file |-> wrote]]
                /\ UNCHANGED <<token, url>>
    /\ Handled(k, IF IsCancel(data) THEN END
                   ELSE AfterPublish(Publish(content_data(k), repoExists, origin, token, url,
                                            fail).message))
    /\ UNCHANGED <<user_data, owner, started, returned>>

\* /cancel, the fallback: taken in every state of a conversation
cancel(k) ==
    /\ conv[k] # END
    /\ reply_text(k, "Canceled")
    /\ outcome' = [outcome EXCEPT ![k] = [by |-> "/cancel", message |-> "Canceled", file |-> None]]
    /\ Handled(k, END)
    /\ UNCHANGED <<user_data, owner, menus, ops, disk, env, started, returned>>

\* One disjunct per handler the dispatcher can select.  read_time_entered is
\* registered under ENTERING_READ_TIME, a state no handler can return, so
\* no update is dispatched to it.  The /start handler replies with a
\* welcome and touches neither the conversation nor the record.
Next ==
    \/ \E k \in Keys : new_content(k)
    \/ \E k \in Keys, menu \in Menus, data \in Data,
          now \in Days : content_type_chosen(k, menu, data, now)
    \/ \E k \in Keys, text \in Titles : title_entered(k, text)
    \/ \E k \in Keys, text \in Texts : description_entered(k, text)
    \/ \E k \in Keys, text \in Contents : content_entered(k, text)
    \/ \E k \in Keys, text \in Texts : tags_entered(k, text)
    \/ \E k \in Keys, menu \in Menus, data \in Data,
          fail \in MayFail \cup {"none"} : confirm_submission(k, menu, data, fail)
    \/ \E k \in Keys : cancel(k)

Spec == Init /\ [][Next]_vars

---------------------------------------------------------------------------
(* The handlers of the read-time step, called directly *)

\* answers to the tags prompt: "a, b ,c", "a,,b", ",", "SKIP", "sKiP",
\* " skip" and "5"
TagTexts == { <<"a",","," ","b"," ",",","c">>, <<"a",",",",","b">>, <<",">>,
              <<"S","K","I","P">>, <<"s","K","i","P">>,
              <<" ","s","k","i","p">>, <<"5">> }

\* answers to the read-time prompt: "5", "0", "-3", " 7", "+2" and "Skip"
ReadTimeTexts == { <<"5">>, <<"0">>, <<"-","3">>, <<" ","7">>, <<"+","2">>,
                   <<"S","k","i","p">> }

\* The state description_entered leaves an essay conversation in: the record
\* has its title and description, the bot has asked for the read time.
HandlerInit ==
    \E k \in Keys, title \in Titles, description \in Texts, now \in Days :
        /\ conv = [j \in Keys |-> IF j = k THEN ENTERING_DESCRIPTION ELSE END]
        /\ user_data = [u \in Users |->
               IF u = UserOf(k)
               THEN Some([ContentData("essays", now) EXCEPT
                             !.title = Some(title),
                             !.description = Some(description)])
               ELSE None]
        /\ menus = [j \in Keys |-> [m \in Menus |-> 0]]
        /\ prompt = [j \in Keys |-> IF j = k THEN "AskReadTime" ELSE "none"]
        /\ ops = [j \in Keys |-> <<>>]
        /\ outcome = [j \in Keys |-> NotEnded]
        /\ disk = {}
        /\ repoExists \in BOOLEAN
        /\ token \in BOOLEAN
        /\ url \in BOOLEAN
        /\ repoExists => url
        /\ origin \in BOOLEAN
        /\ origin => repoExists
        /\ started = 1
        /\ owner = [u \in Users |-> IF u = UserOf(k) THEN k ELSE <<0, 0>>]
        /\ returned = NoCall

\* read_time_entered is called with the answer to the read-time prompt; the
\* handlers of the states it returns follow as the table dispatches them.
HandlerNext ==
    \/ \E k \in Keys, text \in ReadTimeTexts :
          /\ prompt[k] \in {"AskReadTime", "InvalidReadTime"}
          /\ read_time_entered(k, text)
    \/ \E k \in Keys, text \in Contents : content_entered(k, text)
    \/ \E k \in Keys, text \in TagTexts : tags_entered(k, text)

HandlerSpec == HandlerInit /\ [][HandlerNext]_vars

---------------------------------------------------------------------------
(* The methods of ContentData, called directly *)

\* the values of the data model's fields: a text is unset, empty or not, the
\* content has neither, one or both angle brackets in either order, the read
\* time is unset or positive
TitleValues == {None, Some(<<>>), Some(<<"M","y"," ","P">>)}

DescriptionValues == {None, Some(<<>>), Some(<<"5">>)}

ContentValues == {None, Some(<<>>), Some(<<"B","e"," ","k","i","n","d">>),
                  Some(<<"a","<","b">>), Some(<<"<","b",">">>),
                  Some(<<">","a","<">>)}

TagsValues == {<<>>, << <<"5">> >>, << <<"a">>, <<>>, <<"b">> >>}

ReadTimeValues == {None, Some(5)}

Records ==
    [content_type : DOMAIN CONTENT_PATHS, title : TitleValues,
     description : DescriptionValues, content : ContentValues,
     tags : TagsValues, read_time : ReadTimeValues, date : Days]

TheUser == CHOOSE u \in Users : TRUE

\* the record the methods are called on
self == Val(user_data[TheUser])

\* no conversation runs: only the record of the user is there
MethodInit ==
    /\ conv = [k \in Keys |-> END]
    /\ user_data \in [Users -> {Some(r) : r \in Records}]
    /\ menus = [k \in Keys |-> [m \in Menus |-> 0]]
    /\ prompt = [k \in Keys |-> "none"]
    /\ ops = [k \in Keys |-> <<>>]
    /\ outcome = [k \in Keys |-> NotEnded]
    /\ disk = {}
    /\ repoExists = TRUE
    /\ origin = TRUE
    /\ token = TRUE
    /\ url = TRUE
    /\ started = 0
    /\ owner = [u \in Users |-> <<0, 0>>]
    /\ returned = NoCall

\* a method returns: nothing but the returned value changes
Returns(method, value) ==
    /\ returned' = [method |-> method, value |-> value]
    /\ UNCHANGED <<conv, user_data, menus, prompt, ops, outcome, disk, env,
                   started, owner>>

Call_is_complete == Returns("is_complete", is_complete(self))

Call_create_frontmatter == Returns("create_frontmatter", create_frontmatter(self))

Call_create_file_content == Returns("create_file_content", create_file_content(self))

\* `"<" in self.content` raises TypeError on a content that is None
Call_get_file_extension ==
    Returns("get_file_extension",
            IF self.content = None THEN <<"TypeError">> ELSE get_file_extension(self))

MethodNext ==
    \/ Call_is_complete
    \/ Call_create_frontmatter
    \/ Call_create_file_content
    \/ Call_get_file_extension

MethodSpec == MethodInit /\ [][MethodNext]_vars

---------------------------------------------------------------------------
(* generate_filename, called directly *)

\* the longest text drawn character by character
MaxTextLen == 5

\* the most words of a text drawn word by word
MaxWords == 4

\* a letter that lower() changes, a digit, a blank, a dash and a character
\* the slug drops
SlugAlphabet == {"B", "7", " ", "-", "!"}

\* words with and without characters the slug drops
SlugWords == { <<"B">>, <<"7">>, <<"-">>, <<"!">>, <<"B","!","7">> }

\* every text of up to MaxTextLen characters, and every text of up to
\* MaxWords words with one blank between them
SlugTexts ==
    UNION {[1..n -> SlugAlphabet] : n \in 0..MaxTextLen}
    \cup {JoinSpace(ws) : ws \in UNION {[1..n -> SlugWords] : n \in 1..MaxWords}}

\* a blog record that has its title, or an aphorism that has its content
SlugInit ==
    /\ conv = [k \in Keys |-> END]
    /\ \E x \in SlugTexts :
          \/ user_data = [u \in Users |->
                 Some([ContentData("blog", 0) EXCEPT !.title = Some(x)])]
          \/ user_data = [u \in Users |->
                 Some([ContentData("aphorisms", 0) EXCEPT !.content = Some(x)])]
    /\ menus = [k \in Keys |-> [m \in Menus |-> 0]]
    /\ prompt = [k \in Keys |-> "none"]
    /\ ops = [k \in Keys |-> <<>>]
    /\ outcome = [k \in Keys |-> NotEnded]
    /\ disk = {}
    /\ repoExists = TRUE
    /\ origin = TRUE
    /\ token = TRUE
    /\ url = TRUE
    /\ started = 0
    /\ owner = [u \in Users |-> <<0, 0>>]
    /\ returned = NoCall

Call_generate_filename == Returns("generate_filename", generate_filename(self))

SlugNext ==
    \/ Call_generate_filename

SlugSpec == SlugInit /\ [][SlugNext]_vars

---------------------------------------------------------------------------
(* Types *)

States == {END, CHOOSING_CONTENT_TYPE, ENTERING_TITLE, ENTERING_DESCRIPTION,
           ENTERING_CONTENT, ENTERING_TAGS, CONFIRM}

\* the states in which a conversation has created its record
RecordStates == {ENTERING_TITLE, ENTERING_DESCRIPTION, ENTERING_CONTENT,
                 ENTERING_TAGS, CONFIRM}

PublishMessages == {"Pushed", "SavedLocally", "Error"}

Record(k) == content_data(k)

HasRecord(k) == user_data[UserOf(k)] # None

TypeOK ==
    /\ conv \in [Keys -> States]
    /\ \A u \in Users : Cardinality(user_data[u]) <= 1
    /\ \A k \in Keys : conv[k] \in RecordStates => HasRecord(k)
    /\ \A k \in Keys : \A m \in Menus : menus[k][m] \in 0..MaxSessions
    /\ \A k \in Keys : outcome[k].message \in PublishMessages \cup {"none", "Canceled"}
    /\ \A k \in Keys : \A i \in 1..Len(ops[k]) : ops[k][i][1] \in Steps
    /\ started \in 0..MaxSessions

---------------------------------------------------------------------------
(* Claims *)

Last(q) == q[Len(q)]

IsPrefix(p, q) == Len(p) <= Len(q) /\ SubSeq(q, 1, Len(p)) = p

Calls(k) == [i \in 1..Len(ops[k]) |-> ops[k][i][1]]

\* the step of the behaviour is a run of the publish step for key k
PublishRuns(k) ==
    \/ Len(ops'[k]) > Len(ops[k])
    \/ outcome'[k] # outcome[k] /\ outcome'[k].message \in PublishMessages

\* C1: the publish step runs only for a conversation in CONFIRM, only in
\* response to the confirm button, and at most once between /new and END.
C1_PublishOnlyOnConfirm ==
    [][\A k \in Keys :
          PublishRuns(k) =>
              /\ conv[k] = CONFIRM
              /\ outcome[k] = NotEnded
              /\ outcome'[k].by = "confirm"
              /\ conv'[k] = END]_vars

\* C2: a confirm in CONFIRM ends the conversation whatever the publish step
\* gave: pushed, saved locally or error.
C2_ConfirmAlwaysEnds ==
    [][\A k \in Keys :
          conv[k] = CONFIRM /\ PublishRuns(k) => conv'[k] = END]_vars

\* a conversation ended in the error message after a failed file write while
\* another ended saved locally after a failed pull
C2_Witness ==
    \E k, j \in Keys :
        /\ conv[k] = END /\ outcome[k].message = "Error"
        /\ ops[k] # <<>> /\ Last(ops[k]) = <<"write", "failed">>
        /\ conv[j] = END /\ outcome[j].message = "SavedLocally"
        /\ ops[j] # <<>> /\ Last(ops[j]) = <<"pull", "failed">>

Cancels == {"/cancel", "cancel"}

\* C3: /cancel is taken in every state of a conversation and ends it; a
\* conversation ended by /cancel or by the cancel button made no call of the
\* publish step and wrote no file.
C3_CancelEndsWithoutPublishing ==
    /\ [](\A k \in Keys : conv[k] # END => ENABLED cancel(k))
    /\ [][\A k \in Keys :
             outcome'[k] # outcome[k] /\ outcome'[k].by \in Cancels =>
                 /\ conv[k] # END /\ conv'[k] = END
                 /\ ops'[k] = <<>> /\ disk' = disk
                 /\ repoExists' = repoExists /\ origin' = origin]_vars
    /\ [](\A k \in Keys :
             conv[k] = END /\ outcome[k].by \in Cancels =>
                 ops[k] = <<>> /\ outcome[k].file = None)

\* a blog conversation cancelled by /cancel while its content was awaited
C3_Witness ==
    \E k \in Keys :
        /\ conv[k] = END /\ outcome[k].by = "/cancel" /\ prompt[k] = "Canceled"
        /\ HasRecord(k) /\ owner[UserOf(k)] = k
        /\ Record(k).content_type = "blog"
        /\ Record(k).description # None /\ Record(k).content = None
        /\ ops[k] = <<>> /\ disk = {}

\* C4: once a conversation has ended, user_data no longer holds the record
\* that conversation created.
C4_RecordDiscardedAtTerminal ==
    \A k \in Keys :
        conv[k] = END /\ outcome[k] # NotEnded =>
            ~(HasRecord(k) /\ owner[UserOf(k)] = k)

\* the state registered for read_time_entered: none of the six bound ones
EnteringReadTime(st) == st \notin States

\* C5: the first text handled in ENTERING_DESCRIPTION moves an essay
\* conversation to the read-time state and any other to ENTERING_CONTENT.
C5_DescriptionAdvances ==
    [][\A k \in Keys :
          /\ conv[k] = ENTERING_DESCRIPTION
          /\ prompt[k] = "AskDescription"
          /\ prompt'[k] \in {"AskReadTime", "AskContent"}
          => IF Record(k)'.content_type = "essays"
             THEN EnteringReadTime(conv'[k])
             ELSE conv'[k] = ENTERING_CONTENT]_vars

\* the bot has asked key k for the read time and the conversation goes on
AtReadTimeStep(k) ==
    conv[k] # END /\ prompt[k] \in {"AskReadTime", "InvalidReadTime"}

\* C6: while a conversation is asked for the read time (and no other
\* conversation of the user runs), a text input either leaves the record as
\* it is, or sets read_time alone and moves to ENTERING_CONTENT.
C6_ReadTimeInput ==
    [][\A k \in Keys :
          /\ AtReadTimeStep(k)
          /\ \A j \in Keys \ {k} : conv[j] = END
          /\ conv'[k] # END
          /\ user_data' # user_data
          => /\ Record(k)'.read_time # None
             /\ [Record(k)' EXCEPT !.read_time = None] = Record(k)
             /\ conv'[k] = ENTERING_CONTENT]_vars

\* C7: the record a running conversation works on is the one that
\* conversation created: no other conversation has replaced it.
C7_NoCrossSessionSharing ==
    \A k \in Keys : conv[k] \in RecordStates => owner[UserOf(k)] = k

VCSteps == {"remote", "pull", "add", "commit", "push"}

\* C8: when a version-control call made after the file write fails, the
\* message is the saved-locally one, the file written is on disk, and the
\* failed call is the last call made.
C8_VersionControlFailureIsNonFatal ==
    \A k \in Keys :
        (\E i \in 1..Len(ops[k]) :
            ops[k][i][1] \in VCSteps /\ ops[k][i][2] = "failed")
        => /\ outcome[k].message = "SavedLocally"
           /\ outcome[k].file # None /\ outcome[k].file \subseteq disk
           /\ Last(ops[k])[2] = "failed"

PublishOrder == <<"makedirs", "write", "pull", "add", "commit", "push">>

\* C9: the calls of one publish are, in this order, makedirs, write, pull,
\* add, commit, push; a call is made only after all earlier ones succeeded;
\* after a successful commit, push is called iff the credential is set, and
\* without the credential the message is the success one.
C9_PublishOrder ==
    \A k \in Keys :
        LET six == SelectSeq(Calls(k), LAMBDA x : x \in {"makedirs", "write", "pull", "add", "commit", "push"})
            committed == \E i \in 1..Len(ops[k]) : ops[k][i] = <<"commit", "ok">>
            pushes == \E i \in 1..Len(ops[k]) : ops[k][i][1] = "push"
        IN  /\ IsPrefix(six, PublishOrder)
            /\ \A i \in 1..(Len(ops[k]) - 1) : ops[k][i][2] = "ok"
            /\ pushes => committed
            /\ committed => (pushes <=> token)
            /\ committed /\ ~token => outcome[k].message = "Pushed"

\* without a credential, a publish ended in the success message after the
\* commit, with no push
C9_Witness ==
    \E k \in Keys :
        /\ ~token /\ outcome[k].message = "Pushed"
        /\ ops[k] # <<>> /\ Last(ops[k]) = <<"commit", "ok">>
        /\ Calls(k) = <<"open", "makedirs", "write", "remote", "pull", "add", "commit">>

\* C10: every record in user_data has one of the three content types.
C10_ContentTypeInEnum ==
    \A u \in Users :
        user_data[u] # None => Val(user_data[u]).content_type \in DOMAIN CONTENT_PATHS

\* C11: the read time of a record is either unset or a positive integer.
C11_ReadTimePositive ==
    \A u \in Users :
        user_data[u] # None =>
            \/ Val(user_data[u]).read_time = None
            \/ Val(Val(user_data[u]).read_time) > 0

\* the fields the record's type requires, content included for every type
RequiredOf(content_type) ==
    CASE content_type = "blog" -> {"title", "description", "content"}
      [] content_type = "essays" -> {"title", "description", "readTime", "content"}
      [] content_type = "aphorisms" -> {"content"}

\* the field holds a value, and a text is not the empty one
Populated(r, field) ==
    CASE field = "title" -> r.title # None /\ r.title # Some(<<>>)
      [] field = "description" -> r.description # None /\ r.description # Some(<<>>)
      [] field = "content" -> r.content # None /\ r.content # Some(<<>>)
      [] field = "readTime" -> r.read_time # None

\* C12: is_complete returns true iff every field the type requires is
\* populated and the content is non-empty, and false otherwise.
C12_IsCompleteIff ==
    returned.method = "is_complete" =>
        (returned.value <=>
            \A field \in RequiredOf(self.content_type) : Populated(self, field))

\* is_complete gave false for an essay that lacks only its read time, and
\* the record is one the methods were called on
C12_Witness ==
    /\ returned.method = "is_complete" /\ returned.value = FALSE
    /\ self.content_type = "essays"
    /\ \A field \in {"title", "description", "content"} : Populated(self, field)
    /\ self.read_time = None

\* the text is s, k, i, p, each letter in either case
IsSkip(text) ==
    /\ Len(text) = 4
    /\ text[1] \in {"s", "S"} /\ text[2] \in {"k", "K"}
    /\ text[3] \in {"i", "I"} /\ text[4] \in {"p", "P"}

\* the pieces between the commas of the text, in order, each trimmed
Pieces(text) ==
    LET commas == {i \in 1..Len(text) : text[i] = ","}
        \* the position of the n-th comma, 0 before the first piece and
        \* Len(text) + 1 after the last
        at(n) == IF n = 0 THEN 0
                 ELSE IF n > Cardinality(commas) THEN Len(text) + 1
                 ELSE CHOOSE c \in commas : Cardinality({d \in commas : d < c}) = n - 1
    IN  [n \in 1..(Cardinality(commas) + 1) |->
            Strip(SubSeq(text, at(n - 1) + 1, at(n) - 1))]

\* C13: a text handled in ENTERING_TAGS leaves the tags empty when it is
\* "skip" in any letter case and else makes them the trimmed comma-separated
\* pieces of the text, empty pieces kept; the conversation moves to CONFIRM
\* and no other field of the record changes.
C13_TagsParsed ==
    [][\A k \in Keys : \A text \in Texts \cup TagTexts :
          tags_entered(k, text) =>
              /\ conv'[k] = CONFIRM
              /\ Record(k)'.tags = (IF IsSkip(text) THEN <<>> ELSE Pieces(text))
              /\ [Record(k)' EXCEPT !.tags = Record(k).tags] = Record(k)]_vars

\* the step creates a record for user u: a type selection is handled
Creates(u) ==
    \E k \in Keys :
        /\ UserOf(k) = u
        /\ conv[k] = CHOOSING_CONTENT_TYPE
        /\ conv'[k] \in {ENTERING_TITLE, ENTERING_CONTENT}

\* C14: a record keeps the content type and the date it was created with
\* through every later step (title, description, content, tags, confirm,
\* cancel); only the creation of a record at a type selection sets them.
C14_TypeAndDateFixed ==
    [][\A u \in Users :
          user_data[u] # None /\ ~Creates(u) =>
              /\ user_data'[u] # None
              /\ Val(user_data'[u]).content_type = Val(user_data[u]).content_type
              /\ Val(user_data'[u]).date = Val(user_data[u]).date]_vars

\* a blog record created on day 1 went through title, description, content,
\* tags and a publish that wrote its file
C14_Witness ==
    \E k \in Keys :
        /\ conv[k] = END /\ outcome[k].by = "confirm" /\ outcome[k].file # None
        /\ owner[UserOf(k)] = k
        /\ Record(k).content_type = "blog" /\ Record(k).date = 1
        /\ Record(k).title # None /\ Record(k).description # None
        /\ Record(k).content # None /\ Record(k).tags # <<>>

\* the working copy is absent and the URL or the credential is not set
CannotSetUp == ~repoExists /\ ~(token /\ url)

\* C15: with the working copy absent and the URL or the credential not set,
\* a publish makes no external call at all (no clone, no directory, no file,
\* no version-control call), shows the error message and ends the
\* conversation.
C15_SetupFailure ==
    [][\A k \in Keys :
          CannotSetUp /\ PublishRuns(k) =>
              /\ ops'[k] = <<>>
              /\ disk' = disk /\ env' = env
              /\ outcome'[k].message = "Error" /\ outcome'[k].file = None
              /\ conv[k] = CONFIRM /\ conv'[k] = END]_vars

\* a confirm ended in the error message with no call made, the working copy
\* absent and the credential not set
C15_Witness ==
    \E k \in Keys :
        /\ CannotSetUp /\ ~token
        /\ conv[k] = END /\ outcome[k].by = "confirm"
        /\ outcome[k].message = "Error" /\ prompt[k] = "Error"
        /\ ops[k] = <<>> /\ disk = {}

\* the keys the frontmatter of a record has
ExpectedKeys(r) ==
    {key \in {"title", "content", "date", "description", "readTime", "tags"} :
        CASE key = "title" -> r.content_type \in {"blog", "essays"}
          [] key = "content" -> r.content_type = "aphorisms"
          [] key = "date" -> TRUE
          [] key = "description" ->
                r.content_type \in {"blog", "essays"} /\ Populated(r, "description")
          [] key = "readTime" -> r.content_type = "essays" /\ r.read_time # None
          [] key = "tags" -> Len(r.tags) > 0}

\* the record's value for the field a key of the frontmatter names
FieldOf(r, key) ==
    CASE key = "title" -> r.title
      [] key = "content" -> r.content
      [] key = "date" -> r.date
      [] key = "description" -> r.description
      [] key = "readTime" -> r.read_time
      [] key = "tags" -> r.tags

\* C16: the frontmatter block has, between its two delimiter lines, exactly
\* the keys title (blog, essay), content (aphorism), date (always),
\* description (blog, essay, when non-empty), readTime (essay, when set) and
\* tags (when non-empty), each once and with the record's value.
C16_FrontmatterKeys ==
    returned.method = "create_frontmatter" =>
        LET block == returned.value
            entries == SubSeq(block, 2, Len(block) - 1)
        IN  /\ Len(block) >= 2
            /\ block[1].kind = "---" /\ block[Len(block)].kind = "---"
            /\ \A i \in 1..Len(entries) : entries[i].kind = "entry"
            /\ {entries[i].key : i \in 1..Len(entries)} = ExpectedKeys(self)
            /\ Len(entries) = Cardinality(ExpectedKeys(self))
            /\ \A i \in 1..Len(entries) :
                   entries[i].value = FieldOf(self, entries[i].key)

\* the frontmatter of an essay with every field set has five keys, and that
\* of an aphorism with a description and a read time has content and date
C16_Witness ==
    /\ returned.method = "create_frontmatter"
    /\ \/ /\ self.content_type = "essays"
          /\ Len(returned.value) = 7
          /\ \E i \in 1..7 : /\ returned.value[i].key = "readTime"
                              /\ returned.value[i].value = Some(5)
       \/ /\ self.content_type = "aphorisms"
          /\ self.description = Some(<<"5">>) /\ self.read_time = Some(5)
          /\ Len(returned.value) = 4

\* the content has at least one "<" and at least one ">", in any order
BothAngles(r) ==
    \E i, j \in 1..Len(Val(r.content)) :
        Val(r.content)[i] = "<" /\ Val(r.content)[j] = ">"

\* the lines of a file that are the two import lines
ImportLines(file) ==
    {i \in 1..Len(file) : file[i].kind \notin {"---", "entry", "", "content"}}

\* C17: for a record with non-empty content, blog and essay get the
\* extension mdx iff the content has a "<" and a ">", and their file has the
\* two import lines between the frontmatter and the content iff it has; an
\* aphorism gets md and a file that is the frontmatter block alone.
C17_MarkupHeuristic ==
    Populated(self, "content") =>
        /\ returned.method = "get_file_extension" =>
               returned.value =
                   (IF self.content_type # "aphorisms" /\ BothAngles(self)
                    THEN <<"m","d","x">> ELSE <<"m","d">>)
        /\ returned.method = "create_file_content" =>
               LET file == returned.value
                   n == Len(create_frontmatter(self))
               IN  /\ SubSeq(file, 1, n) = create_frontmatter(self)
                   /\ IF self.content_type = "aphorisms" THEN Len(file) = n
                      ELSE /\ file[Len(file)] = ContentLine(self)
                           /\ ImportLines(file) # {} <=> BothAngles(self)
                           /\ ImportLines(file) # {} <=>
                                  get_file_extension(self) = <<"m","d","x">>
                           /\ IF BothAngles(self)
                              THEN /\ Len(file) = n + 5
                                   /\ file[n + 1].kind = "" /\ file[n + 4].kind = ""
                                   /\ ImportLines(file) = {n + 2, n + 3}
                              ELSE Len(file) = n + 2 /\ file[n + 1].kind = ""

\* the file of a blog post whose content is ">a<" has the import lines, and
\* that of an aphorism "<b>" is its frontmatter alone
C17_Witness ==
    /\ returned.method = "create_file_content"
    /\ \/ /\ self.content_type = "blog"
          /\ self.content = Some(<<">","a","<">>)
          /\ ImportLines(returned.value) # {}
       \/ /\ self.content_type = "aphorisms"
          /\ self.content = Some(<<"<","b",">">>)
          /\ returned.value = create_frontmatter(self)

\* the slug of the first three words of a text, lines 132 to 135
ShortSlug(x) == Slugify(JoinSpace(FirstThree(Words(x))))

\* C18: slugging is idempotent, for the slug of a title and for the slug of
\* the first three words of an aphorism; the name generate_filename returns
\* is, before its ".md", a slug that slugging leaves as it is.
C18_SlugIdempotent ==
    LET x == IF self.content_type = "blog" THEN Val(self.title) ELSE Val(self.content)
        name == returned.value
        stem == SubSeq(name, 1, Len(name) - 3)
    IN  /\ Slugify(Slugify(x)) = Slugify(x)
        /\ ShortSlug(ShortSlug(x)) = ShortSlug(x)
        /\ returned.method = "generate_filename" =>
               /\ Len(name) >= 3
               /\ SubSeq(name, Len(name) - 2, Len(name)) = <<".","m","d">>
               /\ IF self.content_type = "blog"
                  THEN stem = Slugify(x) /\ Slugify(stem) = stem
                  ELSE stem = ShortSlug(x) /\ ShortSlug(stem) = stem

\* the name of an aphorism of four words is the slug of its first three,
\* and the name of the title "B !-7" keeps the dash and drops the "!"
C18_Witness ==
    /\ returned.method = "generate_filename"
    /\ \/ /\ self.content_type = "aphorisms"
          /\ self.content = Some(<<"B"," ","7"," ","B"," ","7">>)
          /\ returned.value = <<"b","-","7","-","b",".","m","d">>
       \/ /\ self.content_type = "blog"
          /\ self.title = Some(<<"B"," ","!","-","7">>)
          /\ returned.value = <<"b","-","-","7",".","m","d">>

\* C19: whenever the publish step runs, is_complete holds of the record it
\* is handed.
C19_PublishedRecordComplete ==
    [][\A k \in Keys : PublishRuns(k) => is_complete(Record(k))]_vars

\* C20: a type selection puts a record in user_data whose title,
\* description, content and read time are unset and whose tags are empty,
\* whatever record was there; and a conversation gets from /new to a state
\* that reads the record (a field prompt, the preview, the publish) only by
\* such a selection of its own, so nothing an ended conversation entered is
\* in the record it previews or publishes.
C20_FreshRecord ==
    [][\A k \in Keys :
          /\ Creates(UserOf(k)) =>
                 /\ user_data'[UserOf(k)] # None
                 /\ Record(k)'.title = None /\ Record(k)'.description = None
                 /\ Record(k)'.content = None /\ Record(k)'.read_time = None
                 /\ Record(k)'.tags = <<>>
          /\ conv[k] = END => conv'[k] \in {END, CHOOSING_CONTENT_TYPE}
          /\ conv[k] = CHOOSING_CONTENT_TYPE /\ conv'[k] \in RecordStates =>
                 /\ Creates(UserOf(k))
                 /\ owner'[UserOf(k)] = k]_vars

\* a conversation has published an aphorism with its tags, and the record a
\* later type selection created has no content and no tags
C20_Witness ==
    \E j, k \in Keys :
        /\ conv[j] = END /\ outcome[j].by = "confirm" /\ outcome[j].file # None
        /\ \E name \in outcome[j].file : name[1] = CONTENT_PATHS["aphorisms"]
        /\ conv[k] = ENTERING_TITLE /\ owner[UserOf(k)] = k
        /\ Record(k) = ContentData("blog", Record(k).date)

====
